---------------------------- MODULE Spec2Model ----------------------------
(***************************************************************************)
(* A model of the logshare client library (src/logshare.go): construction  *)
(* of a Client by New, the URL built by buildURL / GetFromTimestamp /      *)
(* FetchFieldNames, the request/response classification of Client.request  *)
(* and the line-by-line forwarding of streamLogs to the destination        *)
(* writers.                                                                *)
(*                                                                         *)
(* Strings and byte slices are sequences of tokens (TLA+ strings).  A      *)
(* token is one character, or a fixed piece of text of the source that     *)
(* holds none of the characters the code gives a meaning to.  A Go pointer *)
(* or interface value is a sequence of length 0 (nil) or 1.                *)
(***************************************************************************)
EXTENDS Integers, Sequences, FiniteSets, TLC

VARIABLES
    options,   \* the caller's *Options value handed to New (nil or a struct)
    newCalls,  \* how many times New has been called on that value
    newRet,    \* the latest call of New: its arguments and the (client, err) it returned
    sinks,     \* the bytes each io.Writer of the caller has accepted so far
    calls      \* per caller: the frame of its GetFromTimestamp/FetchFieldNames call

vars == <<options, newCalls, newRet, sinks, calls>>

-----------------------------------------------------------------------------
(* Bounds of the model *)

\* Longest response body the server sends, in bytes.
MaxBodyLen == 3

\* bufio.MaxScanTokenSize (64 * 1024 in Go's bufio), scaled to MaxBodyLen:
\* streamLogs uses bufio.NewScanner with its default buffer limit.
MaxScanTokenSize == 2

\* The cap of io.LimitReader(resp.Body, 1000000) on an error body, scaled to
\* MaxBodyLen.
ErrorBodyCap == 2

\* How many times the caller constructs a client from the same Options.
MaxNewCalls == 2

\* bufio's startBufSize (4096), scaled like MaxScanTokenSize.
StartBufSize == 1

\* The longest body whose passage through the scanner's buffer is followed.
MaxScanBodyLen == 4

\* The longest body of a response to one of two concurrent calls.
MaxParBodyLen == 2

-----------------------------------------------------------------------------
(* Pointers *)

Nil == <<>>
Some(v) == <<v>>
IsNil(p) == p = <<>>
Deref(p) == p[1]

-----------------------------------------------------------------------------
(* Strings *)

RECURSIVE Concat(_)
\* The concatenation of a sequence of strings.
Concat(ss) == IF ss = <<>> THEN <<>> ELSE Head(ss) \o Concat(Tail(ss))

RECURSIVE Join(_, _)
\* strings.Join(elems, sep)
Join(elems, sep) ==
    IF elems = <<>> THEN <<>>
    ELSE IF Len(elems) = 1 THEN elems[1]
    ELSE elems[1] \o sep \o Join(Tail(elems), sep)

\* strings.Index for a one-token separator: the first position of tok in s, 0
\* when there is none.
Index(s, tok) ==
    IF \E i \in 1..Len(s) : s[i] = tok
    THEN CHOOSE i \in 1..Len(s) : s[i] = tok /\ \A j \in 1..(i - 1) : s[j] # tok
    ELSE 0

Contains(s, tok) == Index(s, tok) # 0

Before(s, i) == SubSeq(s, 1, i - 1)
After(s, i) == SubSeq(s, i + 1, Len(s))

DigitChar == <<"0", "1", "2", "3", "4", "5", "6", "7", "8", "9">>

RECURSIVE Digits(_)
Digits(n) ==
    IF n < 10 THEN <<DigitChar[n + 1]>>
    ELSE Digits(n \div 10) \o <<DigitChar[(n % 10) + 1]>>

\* strconv.FormatInt(n, 10) and strconv.Itoa(n)
FormatInt(n) == IF n < 0 THEN <<"-">> \o Digits(0 - n) ELSE Digits(n)

\* strconv.FormatFloat(f, 'f', 1, 64) of f = h / 100: the nearest number with
\* one digit after the decimal point.  (The inputs of the model hold no tie.)
FormatFloat(h) ==
    LET a == IF h < 0 THEN 0 - h ELSE h
        t == (a + 5) \div 10
    IN  (IF h < 0 THEN <<"-">> ELSE <<>>)
            \o Digits(t \div 10) \o <<".">> \o <<DigitChar[(t % 10) + 1]>>

-----------------------------------------------------------------------------
(* net/url *)

\* The characters url.QueryEscape leaves alone are letters, digits and "-_.~";
\* every other byte becomes %XX.  Of the model's tokens these are the ones it
\* escapes.
EscapeTable ==
    [t \in {",", "%", "?", "#", "=", "&"} |->
        CASE t = "," -> <<"%", "2", "C">>
          [] t = "%" -> <<"%", "2", "5">>
          [] t = "?" -> <<"%", "3", "F">>
          [] t = "#" -> <<"%", "2", "3">>
          [] t = "=" -> <<"%", "3", "D">>
          [] t = "&" -> <<"%", "2", "6">>]

RECURSIVE QueryEscape(_)
\* url.QueryEscape(s)
QueryEscape(s) ==
    IF s = <<>> THEN <<>>
    ELSE (IF Head(s) \in DOMAIN EscapeTable THEN EscapeTable[Head(s)] ELSE <<Head(s)>>)
             \o QueryEscape(Tail(s))

\* sort.Strings order of the parameter names the client sets.
SortedKeys == <<"count", "end", "fields", "sample", "start", "timestamps">>

RECURSIVE EncodeFrom(_, _, _)
EncodeFrom(v, i, buf) ==
    IF i > Len(SortedKeys) THEN buf
    ELSE IF SortedKeys[i] \in DOMAIN v
         THEN EncodeFrom(v, i + 1,
                  buf \o (IF buf = <<>> THEN <<>> ELSE <<"&">>)
                      \o QueryEscape(<<SortedKeys[i]>>) \o <<"=">>
                      \o QueryEscape(v[SortedKeys[i]]))
         ELSE EncodeFrom(v, i + 1, buf)

\* url.Values.Encode(): "key=value" pairs joined by "&", sorted by key, keys
\* and values query-escaped.  (Every key holds one value: the client only
\* ever uses Values.Set.)
Encode(v) == EncodeFrom(v, 1, <<>>)

\* url.Values.Set(key, value)
SetParam(v, key, value) ==
    [k \in DOMAIN v \cup {key} |-> IF k = key THEN value ELSE v[k]]

\* url.Values{}
EmptyValues == [k \in {} |-> <<>>]

\* url.Parse(raw).  The fragment is cut at the first "#", then the query at the
\* first "?"; what is left is scheme, host and path.  A "%" in the path or in
\* the fragment that does not start a %XX escape is an error; no token of the
\* model following a "%" is a hex digit pair there, so every "%" in them is
\* one.  The query is not inspected; a lone "?" ending the text sets ForceQuery.
Parse(raw) ==
    LET h    == Index(raw, "#")
        rest == IF h = 0 THEN raw ELSE Before(raw, h)
        frag == IF h = 0 THEN <<>> ELSE After(raw, h)
        q    == Index(rest, "?")
        path == IF q = 0 THEN rest ELSE Before(rest, q)
        qry  == IF q = 0 THEN <<>> ELSE After(rest, q)
        fq   == q # 0 /\ q = Len(rest)
    IN  IF Contains(path, "%") \/ Contains(frag, "%")
        THEN [err |-> Some(<<"parse: invalid URL escape">>), u |-> Nil]
        ELSE [err |-> Nil,
              u   |-> Some([Path |-> path, ForceQuery |-> fq, RawQuery |-> qry,
                            Fragment |-> frag])]

\* (*url.URL).String()
String(u) ==
    u.Path
        \o (IF u.ForceQuery \/ u.RawQuery # <<>> THEN <<"?">> \o u.RawQuery ELSE <<>>)
        \o (IF u.Fragment # <<>> THEN <<"#">> \o u.Fragment ELSE <<>>)

-----------------------------------------------------------------------------
(* The package's constants, lines 18-28 *)

apiURL == <<"https://api.cloudflare.com/client/v4">>
byRequest == <<"requests">>
byReceived == <<"received">>
unix == <<"unix">>
unixNano == <<"unixnano">>
rfc3339 == <<"rfc3339">>

-----------------------------------------------------------------------------
(* The caller's writers *)

\* os.Stdout, and three writers the caller may hand over as Dest or in
\* MultiDest.  A Write to A, B or os.Stdout accepts every byte; a Write to X
\* may accept only some of the bytes and return an error.
SinkIds == {"Stdout", "A", "B", "X"}
Unreliable == {"X"}

\* The milliseconds makeTimestamp() measures between dispatch and response.
Durations == {12}

\* http.Header: a map from a header name to its values.
EmptyHeader == [k \in {} |-> <<>>]

-----------------------------------------------------------------------------
(* New, lines 77-122 *)

\* The Options value after New has run on it: New appends Dest to the
\* caller's MultiDest slice and stores the slice back (lines 106-111).
OptionsAfterNew(o) ==
    IF IsNil(o.Dest) THEN o
    ELSE [o EXCEPT !.MultiDest =
              Some((IF IsNil(o.MultiDest) THEN <<>> ELSE Deref(o.MultiDest))
                       \o <<Deref(o.Dest)>>)]

\* The client New builds (lines 86-119), opt being the options pointer.
NewClient(apiKey, apiEmail, opt) ==
    LET base == [endpoint        |-> apiURL,
                 apiKey          |-> apiKey,
                 apiEmail        |-> apiEmail,
                 byReceived      |-> IF IsNil(opt) THEN TRUE ELSE Deref(opt).ByReceived,
                 sample          |-> 0,
                 timestampFormat |-> <<>>,
                 fields          |-> Nil,
                 httpClient      |-> "DefaultClient",
                 dest            |-> <<"Stdout">>,
                 headers         |-> EmptyHeader]
    IN  IF IsNil(opt) THEN base
        ELSE LET o == OptionsAfterNew(Deref(opt))
             IN  [base EXCEPT
                    !.timestampFormat = o.TimestampFormat,
                    !.sample = o.Sample,
                    !.dest = IF IsNil(o.MultiDest) THEN base.dest ELSE Deref(o.MultiDest),
                    !.fields = IF IsNil(o.Fields) THEN Nil ELSE o.Fields]

\* A New that looks at apiEmail first.
NewEmailFirst(apiKey, apiEmail, opt) ==
    IF apiEmail = <<>>
    THEN [client |-> Nil, err |-> Some(<<"apiEmail cannot be empty">>), options |-> opt]
    ELSE IF apiKey = <<>>
    THEN [client |-> Nil, err |-> Some(<<"apiKey cannot be empty">>), options |-> opt]
    ELSE [client  |-> Some(NewClient(apiKey, apiEmail, opt)),
          err     |-> Nil,
          options |-> IF IsNil(opt) THEN opt ELSE Some(OptionsAfterNew(Deref(opt)))]

\* New(apiKey, apiEmail, options): the client and error it returns, and the
\* caller's Options value afterwards.
New(apiKey, apiEmail, opt) ==
    IF apiKey = <<>>
    THEN [client |-> Nil, err |-> Some(<<"apiKey cannot be empty">>), options |-> opt]
    ELSE IF apiEmail = <<>>
    THEN [client |-> Nil, err |-> Some(<<"apiEmail cannot be empty">>), options |-> opt]
    ELSE [client  |-> Some(NewClient(apiKey, apiEmail, opt)),
          err     |-> Nil,
          options |-> IF IsNil(opt) THEN opt ELSE Some(OptionsAfterNew(Deref(opt)))]

-----------------------------------------------------------------------------
(* buildURL, GetFromTimestamp, FetchFieldNames: lines 124-192 *)

\* fmt.Sprintf("%s/zones/%s/logs/%s", c.endpoint, zoneID, endpoint)
LogsURLText(c, zoneID) ==
    c.endpoint \o <<"/zones/">> \o zoneID \o <<"/logs/">>
        \o (IF c.byReceived THEN byReceived ELSE byRequest)

\* Parameters that hold the sample also when it is 0.
WithSampleAlways(c, params) ==
    LET p1 == IF c.byReceived /\ ~IsNil(c.fields) /\ Len(Deref(c.fields)) >= 1
              THEN SetParam(params, "fields", Join(Deref(c.fields), <<",">>))
              ELSE params
        p2 == SetParam(p1, "sample", FormatFloat(c.sample))
    IN  IF c.timestampFormat # <<>>
        THEN SetParam(p2, "timestamps", c.timestampFormat)
        ELSE p2

\* Parameters that hold the fields for either variant.
WithFieldsForEitherVariant(c, params) ==
    LET p1 == IF ~IsNil(c.fields) /\ Len(Deref(c.fields)) >= 1
              THEN SetParam(params, "fields", Join(Deref(c.fields), <<",">>))
              ELSE params
        p2 == IF c.sample # 0
              THEN SetParam(p1, "sample", FormatFloat(c.sample))
              ELSE p1
    IN  IF c.timestampFormat # <<>>
        THEN SetParam(p2, "timestamps", c.timestampFormat)
        ELSE p2

\* The parameters buildURL adds to params (lines 141-151).
WithClientParams(c, params) ==
    LET p1 == IF c.byReceived /\ ~IsNil(c.fields) /\ Len(Deref(c.fields)) >= 1
              THEN SetParam(params, "fields", Join(Deref(c.fields), <<",">>))
              ELSE params
        p2 == IF c.sample # 0
              THEN SetParam(p1, "sample", FormatFloat(c.sample))
              ELSE p1
    IN  IF c.timestampFormat # <<>>
        THEN SetParam(p2, "timestamps", c.timestampFormat)
        ELSE p2

\* (c *Client) buildURL(zoneID, params): (u, err)
buildURL(c, zoneID, params) ==
    LET parsed == Parse(LogsURLText(c, zoneID))
    IN  IF ~IsNil(parsed.err) THEN [u |-> Nil, err |-> parsed.err]
        ELSE [u   |-> Some([Deref(parsed.u) EXCEPT
                               !.RawQuery = Encode(WithClientParams(c, params))]),
              err |-> Nil]

\* Params that hold end from 0 on.
TimestampParamsEndFromZero(start, end, count) ==
    LET p0 == SetParam(EmptyValues, "start", FormatInt(start))
        p1 == IF end >= 0 THEN SetParam(p0, "end", FormatInt(end)) ELSE p0
    IN  IF count > 0 THEN SetParam(p1, "count", FormatInt(count)) ELSE p1

\* The params GetFromTimestamp hands to buildURL (lines 160-169).
TimestampParams(start, end, count) ==
    LET p0 == SetParam(EmptyValues, "start", FormatInt(start))
        p1 == IF end > 0 THEN SetParam(p0, "end", FormatInt(end)) ELSE p0
    IN  IF count > 0 THEN SetParam(p1, "count", FormatInt(count)) ELSE p1

\* The URL FetchFieldNames parses (lines 181-187): (u, err)
FieldsURL(c, zoneID) ==
    Parse(c.endpoint \o <<"/zones/">> \o zoneID \o <<"/logs/received/fields">>)

-----------------------------------------------------------------------------
(* Client.request up to the dispatch: lines 194-206 *)

\* http.Header.Set(key, value)
HeaderSet(h, key, value) ==
    [k \in DOMAIN h \cup {key} |-> IF k = key THEN <<value>> ELSE h[k]]

\* http.Header.Get(key): the first value, "" when there is none
HeaderGet(h, key) == IF key \in DOMAIN h /\ h[key] # <<>> THEN h[key][1] ELSE <<>>

\* cloneHeader(header), lines 277-283
cloneHeader(header) == [k \in DOMAIN header |-> header[k]]

\* Headers that leave out Accept.
RequestHeaderLessAccept(c) ==
    HeaderSet(HeaderSet(cloneHeader(c.headers),
        "X-Auth-Key", c.apiKey), "X-Auth-Email", c.apiEmail)

\* The headers request puts on the wire (lines 201-204).
RequestHeader(c) ==
    HeaderSet(HeaderSet(HeaderSet(cloneHeader(c.headers),
        "X-Auth-Key", c.apiKey), "X-Auth-Email", c.apiEmail),
        "Accept", <<"application/json">>)

\* http.NewRequest("GET", u.String(), nil) followed by lines 201-204: (req, err)
NewRequest(c, u) ==
    LET parsed == Parse(String(u))
    IN  IF ~IsNil(parsed.err)
        THEN [req |-> Nil,
              err |-> Some(<<"failed to create a request object", ": ">>
                               \o Deref(parsed.err))]
        ELSE [req |-> Some([Method |-> "GET", URL |-> Deref(parsed.u),
                            Header |-> RequestHeader(c),
                            Client |-> c.httpClient]),
              err |-> Nil]

-----------------------------------------------------------------------------
(* Errors (github.com/pkg/errors): an error is its message *)

\* errors.Wrap(err, msg).Error()
Wrap(err, msg) == msg \o <<": ">> \o err

\* "HTTP status %d: request failed"
StatusFailed(code) == <<"HTTP status ">> \o FormatInt(code) \o <<": request failed">>

\* line 232
NoLogsText == <<": no logs available. Check that Log Share is enabled for your domain or that you are not attempting to retrieve logs too quickly">>

\* The error a failing Read of the response body returns.
ReadError == <<"unexpected EOF">>

\* The error of a failed httpClient.Do.
DialError == <<"dial tcp: connection refused">>

\* bufio.ErrTooLong
ErrTooLong == <<"bufio.Scanner: token too long">>

-----------------------------------------------------------------------------
(* streamLogs, lines 250-269, and the bufio.Scanner it reads with *)

LF == "\n"
CR == "\r"

\* A dropCR that keeps the carriage return.
keepCR(data) == data

\* bufio's dropCR
dropCR(data) ==
    IF data # <<>> /\ data[Len(data)] = CR THEN SubSeq(data, 1, Len(data) - 1) ELSE data

\* One scanner.Scan() with bufio.ScanLines on the unread bytes rest of a body
\* whose reader then ends (with io.EOF or an error).  A line and its newline
\* must fit the buffer of MaxScanTokenSize bytes.  atEnd: the reader reported
\* its end together with its last bytes, so that a last line without a newline
\* that fills the buffer is still split off; otherwise the scanner finds the
\* buffer full first.
ScanStep(rest, atEnd) ==
    LET i == Index(rest, LF)
    IN  IF i # 0 /\ i <= MaxScanTokenSize
        THEN [ok |-> TRUE, token |-> dropCR(Before(rest, i)), rest |-> After(rest, i),
              tooLong |-> FALSE]
        ELSE IF Len(rest) < MaxScanTokenSize \/ (Len(rest) = MaxScanTokenSize /\ atEnd)
        THEN IF rest = <<>>
             THEN [ok |-> FALSE, token |-> <<>>, rest |-> <<>>, tooLong |-> FALSE]
             ELSE [ok |-> TRUE, token |-> dropCR(rest), rest |-> <<>>, tooLong |-> FALSE]
        ELSE [ok |-> FALSE, token |-> <<>>, rest |-> rest, tooLong |-> TRUE]

RECURSIVE WriteFrom(_, _, _, _, _, _)
WriteFrom(s, ws, p, k, n, i) ==
    IF i > Len(ws) THEN s
    ELSE IF i = k THEN [s EXCEPT ![ws[i]] = @ \o SubSeq(p, 1, n)]
    ELSE WriteFrom([s EXCEPT ![ws[i]] = @ \o p], ws, p, k, n, i + 1)

\* A writer that hands p to its first writer only.
FirstWriterOnly(s, ws, p, k, n) ==
    WriteFrom(s, SubSeq(ws, 1, IF Len(ws) = 0 THEN 0 ELSE 1), p, k, n, 1)

\* The writers' contents after io.MultiWriter(ws...).Write(p): each writer in
\* turn is handed p, and the first whose Write fails ends the call.  k is that
\* writer's position (0: none fails) and n the bytes it accepted.
MultiWrite(s, ws, p, k, n) == WriteFrom(s, ws, p, k, n, 1)

-----------------------------------------------------------------------------
(* The state machine *)

\* The frame of a call of GetFromTimestamp or FetchFieldNames.  pc is where the
\* call stands: "idle" (not called), "do" (the request is built, line 207 is
\* next), "scan" (line 258), "writeToken" (line 259), "writeNewline" (line 260),
\* "done" (returned, with meta and err the returned values).  Where the
\* scanner's buffer is followed, pc "fill" is the scanner about to read, buf is
\* the data s.buf[s.start:s.end], bufStart is s.start, bufLen is len(s.buf) and
\* srcEnd tells that the reader has reported its end.  flags is the
\* command line when the call is made by logshare-cli, nil when the caller uses
\* the package.
IdleFrame ==
    [pc |-> "idle", op |-> "", zoneID |-> <<>>, start |-> 0, end |-> 0, count |-> 0,
     u |-> Nil, req |-> Nil, resp |-> Nil, rest |-> <<>>, token |-> <<>>, n |-> 0,
     meta |-> Nil, err |-> Nil, flags |-> Nil,
     buf |-> <<>>, bufStart |-> 0, bufLen |-> 0, srcEnd |-> FALSE]

\* return meta, err
Return(f, meta, err) == [f EXCEPT !.pc = "done", !.meta = meta, !.err = err]

\* Options{}
ZeroOptions ==
    [HTTPClient |-> Nil, Headers |-> EmptyHeader, Dest |-> Nil, MultiDest |-> Nil,
     ByReceived |-> FALSE, TimestampFormat |-> <<>>, Sample |-> 0, Fields |-> Nil]

InitWith(OptionSet) ==
    /\ options \in OptionSet
    /\ newCalls = 0
    /\ newRet = [apiKey |-> <<>>, apiEmail |-> <<>>, client |-> Nil, err |-> Nil]
    /\ sinks = [w \in SinkIds |-> <<>>]
    /\ calls = [c \in {1} |-> IdleFrame]

\* The caller calls New(apiKey, apiEmail, options), with any of the given
\* credentials.
NewCall(KeySet, EmailSet) ==
    /\ newCalls < MaxNewCalls
    /\ \A c \in DOMAIN calls : calls[c].pc = "idle"
    /\ \E apiKey \in KeySet, apiEmail \in EmailSet :
           LET r == New(apiKey, apiEmail, options)
           IN  /\ newRet' = [apiKey |-> apiKey, apiEmail |-> apiEmail,
                              client |-> r.client, err |-> r.err]
               /\ options' = r.options
    /\ newCalls' = newCalls + 1
    /\ UNCHANGED <<sinks, calls>>

\* Client.request(u) up to the dispatch (lines 195-206).
StartRequest(f, c, u) ==
    LET r == NewRequest(c, u)
    IN  IF ~IsNil(r.err) THEN Return(f, Nil, r.err)
        ELSE [f EXCEPT !.pc = "do", !.u = Some(u), !.req = r.req]

\* The frame of cl.GetFromTimestamp(zoneID, start, end, count) run up to the
\* dispatch (lines 159-177), f being the caller's idle frame.
TimestampCall(f, cl, zoneID, start, end, count) ==
    LET g == [f EXCEPT !.op = "GetFromTimestamp", !.zoneID = zoneID,
                       !.start = start, !.end = end, !.count = count]
        b == buildURL(cl, zoneID, TimestampParams(start, end, count))
    IN  IF ~IsNil(b.err) THEN Return(g, Nil, b.err)
        ELSE StartRequest(g, cl, Deref(b.u))

\* The frame of cl.FetchFieldNames(zoneID) run up to the dispatch (lines
\* 180-192).
FieldsCall(f, cl, zoneID) ==
    LET g == [f EXCEPT !.op = "FetchFieldNames", !.zoneID = zoneID]
        b == FieldsURL(cl, zoneID)
    IN  IF ~IsNil(b.err) THEN Return(g, Nil, b.err)
        ELSE StartRequest(g, cl, Deref(b.u))

\* Caller c calls client.GetFromTimestamp(zoneID, start, end, count) with any
\* of the given arguments; the call runs up to the dispatch.
GetFromTimestamp(c, ZoneSet, StartSet, EndSet, CountSet) ==
    /\ calls[c].pc = "idle"
    /\ ~IsNil(newRet.client)
    /\ \E zoneID \in ZoneSet, start \in StartSet, end \in EndSet, count \in CountSet :
           calls' = [calls EXCEPT ![c] =
                        TimestampCall(@, Deref(newRet.client), zoneID, start, end, count)]
    /\ UNCHANGED <<options, newCalls, newRet, sinks>>

\* Caller c calls client.FetchFieldNames(zoneID) with any of the given zones;
\* the call runs up to the dispatch.
FetchFieldNames(c, ZoneSet) ==
    /\ calls[c].pc = "idle"
    /\ ~IsNil(newRet.client)
    /\ \E zoneID \in ZoneSet :
           calls' = [calls EXCEPT ![c] = FieldsCall(@, Deref(newRet.client), zoneID)]
    /\ UNCHANGED <<options, newCalls, newRet, sinks>>

\* logshare-cli (src/cmd/logshare-cli/main.go).  The command line is a record
\* of the flags' values; the flags not given hold their zero values.

\* parseFlags, lines 127-144: the config read from the command line.  The
\* ray-id flag is declared (lines 208-211) and not read.
parseFlags(flags) ==
    [apiKey              |-> flags.apiKey,
     apiEmail            |-> flags.apiEmail,
     zoneID              |-> flags.zoneID,
     zoneName            |-> flags.zoneName,
     startTime           |-> flags.startTime,
     endTime             |-> flags.endTime,
     count               |-> flags.count,
     timestampFormat     |-> flags.timestampFormat,
     sample              |-> flags.sample,
     fields              |-> flags.fields,
     listFields          |-> flags.listFields,
     googleStorageBucket |-> flags.googleStorageBucket,
     googleProjectID     |-> flags.googleProjectID]

\* (conf *config) Validate(), lines 170-189; sample is in hundredths.
Validate(conf) ==
    IF conf.apiKey = <<>> \/ conf.apiEmail = <<>>
    THEN Some(<<"Must provide both api-key and api-email">>)
    ELSE IF conf.zoneID = <<>> /\ conf.zoneName = <<>>
    THEN Some(<<"zone-name OR zone-id must be set">>)
    ELSE IF conf.sample # 0 /\ (conf.sample < 10 \/ conf.sample > 90)
    THEN Some(<<"sample must be between 0.1 and 0.9">>)
    ELSE IF (conf.googleStorageBucket = <<>>) # (conf.googleProjectID = <<>>)
    THEN Some(<<"Both google-storage-bucket and google-project-id must be provided to upload to Google Storage">>)
    ELSE Nil

\* The Options run hands to logshare.New (lines 96-102) when no Google Storage
\* bucket is given: outputWriter is nil.
CliOptions(conf) ==
    Some([ZeroOptions EXCEPT !.Fields = conf.fields,
                             !.ByReceived = TRUE,
                             !.Sample = conf.sample,
                             !.TimestampFormat = conf.timestampFormat])

\* The call of the client run makes for the config (lines 109-121).
CliCall(f, cl, conf) ==
    IF conf.listFields THEN FieldsCall(f, cl, conf.zoneID)
    ELSE TimestampCall(f, cl, conf.zoneID, conf.startTime, conf.endTime, conf.count)

\* logshare-cli is run with any of the given command lines (run, lines 64-124):
\* the flags are parsed and validated, the client is built and its call runs up
\* to the dispatch.  A command line that Validate or New rejects ends the run
\* with that error.
RunCLI(c, FlagSet) ==
    /\ newCalls < MaxNewCalls
    /\ \A d \in DOMAIN calls : calls[d].pc = "idle"
    /\ \E flags \in FlagSet :
           LET conf == parseFlags(flags)
               f    == [calls[c] EXCEPT !.flags = Some(flags)]
               r    == New(conf.apiKey, conf.apiEmail, CliOptions(conf))
           IN  IF ~IsNil(Validate(conf))
               THEN /\ calls' = [calls EXCEPT ![c] = Return(f, Nil, Validate(conf))]
                    /\ UNCHANGED <<options, newCalls, newRet>>
               ELSE /\ newRet' = [apiKey |-> conf.apiKey, apiEmail |-> conf.apiEmail,
                                   client |-> r.client, err |-> r.err]
                    /\ options' = r.options
                    /\ newCalls' = newCalls + 1
                    /\ calls' = [calls EXCEPT ![c] =
                                    IF ~IsNil(r.err) THEN Return(f, Nil, r.err)
                                    ELSE CliCall(f, Deref(r.client), conf)]
    /\ UNCHANGED sinks

\* A failed dispatch that returns a Meta without a status.
DoFailsWithMeta(c) ==
    /\ calls[c].pc = "do"
    /\ calls' = [calls EXCEPT ![c] =
                    Return(@, Some([Count |-> 0, Duration |-> 0, StatusCode |-> 0,
                                    URL |-> String(Deref(@.u))]),
                           Some(Wrap(DialError, <<"HTTP request failed">>)))]
    /\ UNCHANGED <<options, newCalls, newRet, sinks>>

\* c.httpClient.Do(req) fails (lines 207-210).
DoFails(c) ==
    /\ calls[c].pc = "do"
    /\ calls' = [calls EXCEPT ![c] =
                    Return(@, Nil, Some(Wrap(DialError, <<"HTTP request failed">>)))]
    /\ UNCHANGED <<options, newCalls, newRet, sinks>>

\* ioutil.ReadAll(resp.Body), without a limit.
ReadAllWhole(resp, withData) ==
    IF resp.readErr THEN [body |-> <<>>, err |-> Some(ReadError)]
    ELSE [body |-> resp.Body, err |-> Nil]

\* What ioutil.ReadAll(io.LimitReader(resp.Body, cap)) returns (lines 221-222).
\* withData: a failing reader returns its error together with its last bytes.
ReadAllLimited(resp, withData) ==
    IF resp.readErr /\ (Len(resp.Body) < ErrorBodyCap
                           \/ (Len(resp.Body) = ErrorBodyCap /\ withData))
    THEN [body |-> <<>>, err |-> Some(ReadError)]
    ELSE [body |-> SubSeq(resp.Body, 1,
                          IF Len(resp.Body) < ErrorBodyCap THEN Len(resp.Body)
                          ELSE ErrorBodyCap),
          err  |-> Nil]

\* A classification that has no case for 204.
StatusClassNo204(code) == IF code < 200 \/ code > 299 THEN "failed" ELSE "stream"

\* The three cases request tells apart by the status code (lines 219, 231).
StatusClass(code) ==
    IF code < 200 \/ code > 299 THEN "failed"
    ELSE IF code = 204 THEN "empty"
    ELSE "stream"

\* The classification of the response (lines 213-236).
Classify(f, resp, duration, withData) ==
    LET meta == [Count |-> 0, Duration |-> duration, StatusCode |-> resp.StatusCode,
                 URL |-> String(Deref(f.u))]
        g    == [f EXCEPT !.resp = Some(resp)]
    IN  IF StatusClass(resp.StatusCode) = "failed"
        THEN LET r == ReadAllLimited(resp, withData)
             IN  IF ~IsNil(r.err)
                 THEN Return(g, Some(meta),
                             Some(Wrap(Deref(r.err), StatusFailed(resp.StatusCode))))
                 ELSE Return(g, Some(meta),
                             Some(StatusFailed(resp.StatusCode) \o <<": ">> \o r.body))
        ELSE IF StatusClass(resp.StatusCode) = "empty"
        THEN Return(g, Some(meta),
                    Some(<<"HTTP status ">> \o FormatInt(resp.StatusCode) \o NoLogsText))
        ELSE [g EXCEPT !.pc = "scan", !.meta = Some(meta), !.rest = resp.Body, !.n = 0]

\* c.httpClient.Do(req) returns one of the given responses, which request
\* classifies.
DoResponds(c, ResponseSet) ==
    /\ calls[c].pc = "do"
    /\ \E resp \in ResponseSet, duration \in Durations :
        \E withData \in IF resp.readErr /\ Len(resp.Body) = ErrorBodyCap
                             /\ StatusClass(resp.StatusCode) = "failed"
                          THEN BOOLEAN ELSE {FALSE} :
           calls' = [calls EXCEPT ![c] = Classify(@, resp, duration, withData)]
    /\ UNCHANGED <<options, newCalls, newRet, sinks>>

\* A return that drops the Meta when the stream failed.
EndOfStreamLosesMeta(f, scanned) ==
    LET scanErr == IF scanned.tooLong THEN Some(ErrTooLong)
                   ELSE IF Deref(f.resp).readErr THEN Some(ReadError)
                   ELSE Nil
        meta    == Some([Deref(f.meta) EXCEPT !.Count = f.n])
    IN  IF ~IsNil(scanErr)
        THEN Return(f, Nil,
                    Some(Wrap(Wrap(Deref(scanErr), <<"reading response:">>),
                              <<"failed to stream logs">>)))
        ELSE Return(f, meta, Nil)

\* A return that leaves Count at 0 when the stream failed.
EndOfStreamZeroCount(f, scanned) ==
    LET scanErr == IF scanned.tooLong THEN Some(ErrTooLong)
                   ELSE IF Deref(f.resp).readErr THEN Some(ReadError)
                   ELSE Nil
    IN  IF ~IsNil(scanErr)
        THEN Return(f, f.meta,
                    Some(Wrap(Wrap(Deref(scanErr), <<"reading response:">>),
                              <<"failed to stream logs">>)))
        ELSE Return(f, Some([Deref(f.meta) EXCEPT !.Count = f.n]), Nil)

\* A streamer whose counter is shared by the calls in flight.
EndOfStreamSharedCount(f, scanned) ==
    LET scanErr == IF scanned.tooLong THEN Some(ErrTooLong)
                   ELSE IF Deref(f.resp).readErr THEN Some(ReadError)
                   ELSE Nil
        Sum[S \in SUBSET DOMAIN calls] ==
            IF S = {} THEN 0
            ELSE LET c == CHOOSE x \in S : TRUE IN calls[c].n + Sum[S \ {c}]
        total   == Sum[DOMAIN calls]
        meta    == Some([Deref(f.meta) EXCEPT !.Count = total])
    IN  IF ~IsNil(scanErr)
        THEN Return(f, meta,
                    Some(Wrap(Wrap(Deref(scanErr), <<"reading response:">>),
                              <<"failed to stream logs">>)))
        ELSE Return(f, meta, Nil)

\* The return of streamLogs and then of request once scanner.Scan() is false
\* (lines 264-268 and 236-241).
EndOfStream(f, scanned) ==
    LET scanErr == IF scanned.tooLong THEN Some(ErrTooLong)
                   ELSE IF Deref(f.resp).readErr THEN Some(ReadError)
                   ELSE Nil
        meta    == Some([Deref(f.meta) EXCEPT !.Count = f.n])
    IN  IF ~IsNil(scanErr)
        THEN Return(f, meta,
                    Some(Wrap(Wrap(Deref(scanErr), <<"reading response:">>),
                              <<"failed to stream logs">>)))
        ELSE Return(f, meta, Nil)

\* scanner.Scan() (line 258).
Scan(c) ==
    /\ calls[c].pc = "scan"
    /\ \E atEnd \in IF Index(calls[c].rest, LF) = 0
                       /\ Len(calls[c].rest) = MaxScanTokenSize
                    THEN BOOLEAN ELSE {FALSE} :
           LET r == ScanStep(calls[c].rest, atEnd)
           IN  calls' = [calls EXCEPT ![c] =
                            IF r.ok
                            THEN [@ EXCEPT !.pc = "writeToken", !.token = r.token,
                                           !.rest = r.rest]
                            ELSE EndOfStream(@, r)]
    /\ UNCHANGED <<options, newCalls, newRet, sinks>>

\* The positions at which a Write of p to the writers ws may fail, with the
\* bytes the failing writer accepted: <<0, 0>> when every Write succeeds.
WriteOutcomes(ws, p) ==
    {<<0, 0>>} \cup {<<k, n>> \in (1..Len(ws)) \X (0..Len(p)) : ws[k] \in Unreliable}

\* w.Write(scanner.Bytes()) (line 259); the result is dropped.
WriteToken(c) ==
    /\ calls[c].pc = "writeToken"
    /\ \E o \in WriteOutcomes(Deref(newRet.client).dest, calls[c].token) :
           sinks' = MultiWrite(sinks, Deref(newRet.client).dest, calls[c].token, o[1], o[2])
    /\ calls' = [calls EXCEPT ![c].pc = "writeNewline"]
    /\ UNCHANGED <<options, newCalls, newRet>>

\* w.Write([]byte("\n")); count++ (lines 260-261); the result is dropped.
WriteNewline(c) ==
    /\ calls[c].pc = "writeNewline"
    /\ \E o \in WriteOutcomes(Deref(newRet.client).dest, <<LF>>) :
           sinks' = MultiWrite(sinks, Deref(newRet.client).dest, <<LF>>, o[1], o[2])
    /\ calls' = [calls EXCEPT ![c].pc = "scan", ![c].n = @ + 1]
    /\ UNCHANGED <<options, newCalls, newRet>>

-----------------------------------------------------------------------------
(* The scanner's buffer: bufio.Scanner.Scan as streamLogs drives it, line 258 *)

\* bufio.ScanLines(data, atEOF): [advance, token, found]
ScanLines(data, atEOF) ==
    LET i == Index(data, LF)
    IN  IF atEOF /\ data = <<>> THEN [advance |-> 0, token |-> <<>>, found |-> FALSE]
        ELSE IF i # 0
        THEN [advance |-> i, token |-> dropCR(Before(data, i)), found |-> TRUE]
        ELSE IF atEOF
        THEN [advance |-> Len(data), token |-> dropCR(data), found |-> TRUE]
        ELSE [advance |-> 0, token |-> <<>>, found |-> FALSE]

\* A buffer that doubles without a limit.
newSizeUnlimited(len) == Some(IF len = 0 THEN StartBufSize ELSE len * 2)

\* The length of the buffer that replaces a full buffer of length len: nil
\* when the buffer has reached the scanner's limit (ErrTooLong).
newSize(len) ==
    IF len >= MaxScanTokenSize THEN Nil
    ELSE IF len = 0 THEN Some(StartBufSize)
    ELSE IF len * 2 > MaxScanTokenSize THEN Some(MaxScanTokenSize)
    ELSE Some(len * 2)

\* The top of the loop of Scan: a token is split off the buffered data when
\* there is one; without one, Scan returns false when the reader has ended and
\* goes on to read otherwise.
ScanBuffer(c) ==
    /\ calls[c].pc = "scan"
    /\ LET f == calls[c]
           r == ScanLines(f.buf, f.srcEnd)
       IN  calls' = [calls EXCEPT ![c] =
                        IF (f.buf # <<>> \/ f.srcEnd) /\ r.found
                        THEN [f EXCEPT !.pc = "writeToken", !.token = r.token,
                                       !.buf = SubSeq(f.buf, r.advance + 1, Len(f.buf)),
                                       !.bufStart = f.bufStart + r.advance]
                        ELSE IF f.srcEnd
                        THEN EndOfStream([f EXCEPT !.buf = <<>>, !.bufStart = 0],
                                         [tooLong |-> FALSE])
                        ELSE [f EXCEPT !.pc = "fill"]]
    /\ UNCHANGED <<options, newCalls, newRet, sinks>>

\* The rest of the loop: the data is moved to the front of the buffer when
\* space is needed, a full buffer is replaced by a longer one or ends the scan
\* with ErrTooLong, and one Read puts some of the body's bytes into the free
\* space; the reader reports its end with its last bytes or after them.
ScanRead(c) ==
    /\ calls[c].pc = "fill"
    /\ LET f       == calls[c]
           end     == f.bufStart + Len(f.buf)
           shifted == f.bufStart > 0 /\ (end = f.bufLen \/ f.bufStart > f.bufLen \div 2)
           start1  == IF shifted THEN 0 ELSE f.bufStart
           end1    == start1 + Len(f.buf)
           full    == end1 = f.bufLen
           len1    == IF full /\ ~IsNil(newSize(f.bufLen)) THEN Deref(newSize(f.bufLen))
                      ELSE f.bufLen
           start2  == IF full THEN 0 ELSE start1
           space   == len1 - (start2 + Len(f.buf))
       IN  IF full /\ IsNil(newSize(f.bufLen))
           THEN calls' = [calls EXCEPT ![c] =
                             EndOfStream([f EXCEPT !.bufStart = start1], [tooLong |-> TRUE])]
           ELSE \E n \in 0..space, ended \in BOOLEAN :
                    /\ n <= Len(f.rest)
                    /\ n = 0 => ended
                    /\ ended => n = Len(f.rest)
                    /\ calls' = [calls EXCEPT ![c] =
                                    [f EXCEPT !.pc = "scan",
                                              !.buf = f.buf \o SubSeq(f.rest, 1, n),
                                              !.rest = SubSeq(f.rest, n + 1, Len(f.rest)),
                                              !.bufStart = start2,
                                              !.bufLen = len1,
                                              !.srcEnd = ended]]
    /\ UNCHANGED <<options, newCalls, newRet, sinks>>

-----------------------------------------------------------------------------
(* The inputs *)

Keys == {<<>>, <<"test-api-key">>}
Emails == {<<>>, <<"test@email.io">>}

Bytes == {"a", LF, CR}
Bodies == UNION {[1..n -> Bytes] : n \in 0..MaxBodyLen}
Statuses == {199, 200, 204, 299, 300}

\* Every response of the bounds.
Responses == [StatusCode : Statuses, Body : Bodies, readErr : BOOLEAN]

\* A few responses, one of each class.
FewResponses ==
    {[StatusCode |-> 200, Body |-> <<"a", LF>>, readErr |-> FALSE],
     [StatusCode |-> 204, Body |-> <<>>, readErr |-> FALSE],
     [StatusCode |-> 300, Body |-> <<"a">>, readErr |-> FALSE]}

\* Zone identifiers: a plain one, the empty one, and ones that hold a
\* character url.Parse gives a meaning to.
Zones == {<<"z">>, <<>>, <<"z", "?", "z">>, <<"z", "#">>, <<"?", "#">>, <<"%">>, <<"?", "%">>}
Starts == {-3, 15}
Ends == {-1, 0, 20}
Counts == {-1, 0, 5}

\* Options that differ in the writers they name.
SinkOptions ==
    {Nil} \cup
    {Some([ZeroOptions EXCEPT !.Dest = dm[1], !.MultiDest = dm[2]]) :
        dm \in {<<Nil, Nil>>, <<Nil, Some(<<>>)>>, <<Some("A"), Nil>>,
                <<Some("A"), Some(<<"B">>)>>, <<Nil, Some(<<"A", "B">>)>>,
                <<Some("X"), Some(<<"B">>)>>, <<Some("B"), Some(<<"X">>)>>}}

\* Sampling rates (in hundredths) outside [0.1, 0.9] and timestamp formats that
\* are none of "unix", "unixnano", "rfc3339".
OddSettings == {<<500, <<"rfc3339">> >>, <<-20, <<"x", "&", "y">> >>, <<4, <<"UNIX">> >>}

\* Options that differ in what goes into the request.
FieldLists == {Nil, Some(<<>>), Some(<< <<"F">> >>), Some(<< <<"G", ",">>, <<"%", "F">> >>)}
RequestOptions ==
    {Nil} \cup
    {Some([ZeroOptions EXCEPT !.ByReceived = r, !.Fields = fl,
                              !.Sample = st[1], !.TimestampFormat = st[2]]) :
        r \in BOOLEAN, fl \in FieldLists, st \in {<<0, <<>> >>, <<50, <<"unix">> >>}}
    \cup
    {Some([ZeroOptions EXCEPT !.Headers = h, !.HTTPClient = Some("custom")]) :
        h \in {[k \in {"X-Auth-Key", "Accept"} |-> << <<"theirs">> >>],
               [k \in {"X-Auth-Email", "X-Custom"} |-> << <<"theirs">> >>]}}
    \cup
    {Some([ZeroOptions EXCEPT !.Sample = st[1], !.TimestampFormat = st[2]]) :
        st \in OddSettings}

\* Command lines of logshare-cli: with and without --ray-id and --list-fields,
\* and some that Validate rejects.
CommandLines ==
    {[apiKey |-> <<"test-api-key">>, apiEmail |-> e, zoneID |-> z, zoneName |-> <<>>,
      rayID |-> ray, startTime |-> 15, endTime |-> 20, count |-> 1,
      timestampFormat |-> st[2], sample |-> st[1], fields |-> Nil,
      listFields |-> lf, googleStorageBucket |-> <<>>, googleProjectID |-> <<>>] :
        e \in Emails, z \in {<<"z">>}, ray \in {<<>>, <<"ray">>}, lf \in BOOLEAN,
        st \in {<<0, <<"unixnano">> >>, <<50, <<"UNIX">> >>} \cup OddSettings}
    \cup
    {[apiKey |-> <<"test-api-key">>, apiEmail |-> <<"test@email.io">>, zoneID |-> z,
      zoneName |-> <<>>, rayID |-> <<>>, startTime |-> 15, endTime |-> 0, count |-> -1,
      timestampFormat |-> <<"unixnano">>, sample |-> 0,
      fields |-> Some(<< <<"F">> >>), listFields |-> FALSE,
      googleStorageBucket |-> b, googleProjectID |-> <<>>] :
        z \in {<<"z">>, <<>>}, b \in {<<>>, <<"bucket">>}}

-----------------------------------------------------------------------------
(* The specifications *)

Init == InitWith(SinkOptions)

\* Every response and every set of writers, for a plain request.
Next ==
    \/ NewCall({<<"test-api-key">>}, {<<"test@email.io">>})
    \/ \E c \in DOMAIN calls : GetFromTimestamp(c, {<<"z">>, <<"%">>}, {15}, {0}, {5})
    \/ \E c \in DOMAIN calls : FetchFieldNames(c, {<<"z">>, <<"%">>})
    \/ \E c \in DOMAIN calls : DoFails(c)
    \/ \E c \in DOMAIN calls : DoResponds(c, Responses)
    \/ \E c \in DOMAIN calls : Scan(c)
    \/ \E c \in DOMAIN calls : WriteToken(c)
    \/ \E c \in DOMAIN calls : WriteNewline(c)

Spec == Init /\ [][Next]_vars

InitURL == InitWith(RequestOptions)

\* Every request, for a few responses.
NextURL ==
    \/ NewCall(Keys, Emails)
    \/ \E c \in DOMAIN calls : GetFromTimestamp(c, Zones, Starts, Ends, Counts)
    \/ \E c \in DOMAIN calls : FetchFieldNames(c, Zones)
    \/ \E c \in DOMAIN calls : RunCLI(c, CommandLines)
    \/ \E c \in DOMAIN calls : DoFails(c)
    \/ \E c \in DOMAIN calls : DoResponds(c, FewResponses)
    \/ \E c \in DOMAIN calls : Scan(c)
    \/ \E c \in DOMAIN calls : WriteToken(c)
    \/ \E c \in DOMAIN calls : WriteNewline(c)

SpecURL == InitURL /\ [][NextURL]_vars

\* Successful responses whose bodies go through the scanner's buffer.
ScanResponses ==
    [StatusCode : {200},
     Body : UNION {[1..n -> {"a", LF}] : n \in 0..MaxScanBodyLen},
     readErr : BOOLEAN]

InitScan == InitWith({Nil})

\* A successful request, the scanner followed Read by Read.
NextScan ==
    \/ NewCall({<<"test-api-key">>}, {<<"test@email.io">>})
    \/ \E c \in DOMAIN calls : GetFromTimestamp(c, {<<"z">>}, {15}, {0}, {5})
    \/ \E c \in DOMAIN calls : DoResponds(c, ScanResponses)
    \/ \E c \in DOMAIN calls : ScanBuffer(c)
    \/ \E c \in DOMAIN calls : ScanRead(c)
    \/ \E c \in DOMAIN calls : WriteToken(c)
    \/ \E c \in DOMAIN calls : WriteNewline(c)

SpecScan == InitScan /\ [][NextScan]_vars

\* The responses two concurrent calls get: successful ones with every body of
\* the bound, read whole or ending in an error, and one without content.
ParResponses ==
    [StatusCode : {200},
     Body : UNION {[1..n -> {"a", LF}] : n \in 0..MaxParBodyLen},
     readErr : BOOLEAN]
    \cup {[StatusCode |-> 204, Body |-> <<>>, readErr |-> FALSE]}

\* One client, writing to os.Stdout or to one writer of the caller, and two
\* goroutines that call it.
InitPar ==
    /\ options \in {Nil, Some([ZeroOptions EXCEPT !.Dest = Some("A")])}
    /\ newCalls = 0
    /\ newRet = [apiKey |-> <<>>, apiEmail |-> <<>>, client |-> Nil, err |-> Nil]
    /\ sinks = [w \in SinkIds |-> <<>>]
    /\ calls = [c \in {1, 2} |-> IdleFrame]

\* Two calls on the same client, their steps interleaved in every way.
NextPar ==
    \/ NewCall({<<"test-api-key">>}, {<<"test@email.io">>})
    \/ \E c \in DOMAIN calls : GetFromTimestamp(c, {<<"z">>}, {15}, {0}, {5})
    \/ \E c \in DOMAIN calls : DoFails(c)
    \/ \E c \in DOMAIN calls : DoResponds(c, ParResponses)
    \/ \E c \in DOMAIN calls : Scan(c)
    \/ \E c \in DOMAIN calls : WriteToken(c)
    \/ \E c \in DOMAIN calls : WriteNewline(c)

SpecPar == InitPar /\ [][NextPar]_vars

-----------------------------------------------------------------------------
(* What the claims speak of *)

\* The calls that have returned.
Returned == {c \in DOMAIN calls : calls[c].pc = "done"}

\* The calls that got a response.
Answered == {c \in Returned : ~IsNil(calls[c].resp)}

StatusOf(c) == Deref(calls[c].resp).StatusCode
BodyOf(c) == Deref(calls[c].resp).Body

\* The writers of the client the calls run on, in the order they are written.
Writers == Deref(newRet.client).dest

\* Writer i gets every Write in full: it and the writers before it accept
\* every byte they are handed.
GetsEveryWrite(i) == \A j \in 1..i : Writers[j] \notin Unreliable

ListedOnce(i) == \A j \in 1..Len(Writers) : Writers[j] = Writers[i] => j = i

NewlineTerminated(b) == b = <<>> \/ b[Len(b)] = LF

RECURSIVE Records(_)
\* The records of a body of newline-terminated records.
Records(b) ==
    IF b = <<>> THEN <<>>
    ELSE <<Before(b, Index(b, LF))>> \o Records(After(b, Index(b, LF)))

RECURSIVE Framed(_)
\* Each record followed by one newline.
Framed(rs) == IF rs = <<>> THEN <<>> ELSE Head(rs) \o <<LF>> \o Framed(Tail(rs))

\* The number of newlines in a byte sequence.
Newlines(b) == Cardinality({i \in 1..Len(b) : b[i] = LF})

\* A successful response whose body arrives whole and is N newline-terminated
\* records.
WholeRecordsResponse(c) ==
    /\ c \in Answered
    /\ StatusOf(c) >= 200 /\ StatusOf(c) <= 299 /\ StatusOf(c) # 204
    /\ ~Deref(calls[c].resp).readErr
    /\ NewlineTerminated(BodyOf(c))

\* The call returned a nil error and a Meta whose Count is the number of the
\* records rs, and each writer that is listed once and gets every Write holds
\* the records rs, each followed by one newline.
ForwardedAs(c, rs) ==
    /\ IsNil(calls[c].err)
    /\ ~IsNil(calls[c].meta)
    /\ Deref(calls[c].meta).Count = Len(rs)
    /\ Deref(calls[c].meta).StatusCode = StatusOf(c)
    /\ \A i \in 1..Len(Writers) :
           GetsEveryWrite(i) /\ ListedOnce(i) => sinks[Writers[i]] = Framed(rs)

\* Every record and its newline fit the scanner's buffer.
RecordsFit(b) == \A i \in 1..Len(Records(b)) : Len(Records(b)[i]) < MaxScanTokenSize

\* A record less the carriage return it may end in.
LessCR(r) == IF r # <<>> /\ r[Len(r)] = CR THEN SubSeq(r, 1, Len(r) - 1) ELSE r

ErrText(c) == Deref(calls[c].err)

NoSinkWritten == \A w \in SinkIds : sinks[w] = <<>>

\* C2: a response with status exactly 204 always makes request return a
\* non-nil Meta with StatusCode 204 and Count 0 together with the 'no logs
\* available' error, whatever the body holds, and nothing is written to a sink.
C2_NoContent ==
    \A c \in DOMAIN calls :
        ~IsNil(calls[c].resp) /\ StatusOf(c) = 204
            => /\ calls[c].pc = "done"
               /\ ~IsNil(calls[c].meta)
               /\ Deref(calls[c].meta).StatusCode = 204
               /\ Deref(calls[c].meta).Count = 0
               /\ ~IsNil(calls[c].err)
               /\ ErrText(c) = <<"HTTP status ", "2", "0", "4">> \o NoLogsText
               /\ ~Contains(ErrText(c), "request failed")
               /\ NoSinkWritten

\* A 204 response with a body of two records has been answered.
C2_Witness ==
    \E c \in Answered :
        StatusOf(c) = 204 /\ Newlines(BodyOf(c)) = 2 /\ ~Deref(calls[c].resp).readErr

\* What a non-2xx response always yields, whatever the error says: a Meta with
\* the status, the requested URL and Count 0, and no byte in any sink.
FailedMeta(c) ==
    /\ ~IsNil(calls[c].meta)
    /\ Deref(calls[c].meta).StatusCode = StatusOf(c)
    /\ Deref(calls[c].meta).URL = String(Deref(calls[c].req).URL)
    /\ Deref(calls[c].meta).Count = 0
    /\ ~IsNil(calls[c].err)

\* "HTTP status <code>: request failed: <text>"
FailedWith(code, text) ==
    <<"HTTP status ">> \o FormatInt(code) \o <<": request failed", ": ">> \o text

\* The first bytes of the body, up to the cap of line 221.
Capped(b) == SubSeq(b, 1, IF Len(b) < ErrorBodyCap THEN Len(b) ELSE ErrorBodyCap)

NonSuccess(c) == c \in Answered /\ (StatusOf(c) < 200 \/ StatusOf(c) > 299)

\* C3 as stated: for every response whose status is outside [200,299], request
\* returns a non-nil Meta with that status, the requested URL and Count 0,
\* together with an error whose message carries the status code and the
\* response body text, read up to the cap.
C3_AsStated ==
    \A c \in DOMAIN calls :
        NonSuccess(c) =>
            FailedMeta(c) /\ ErrText(c) = FailedWith(StatusOf(c), Capped(BodyOf(c)))

\* C3, amended: for every response whose status is outside [200,299], request
\* returns a non-nil Meta with that status, the requested URL and Count 0,
\* together with an error whose message carries the status code and, when the
\* body could be read up to the cap, the body text read, and otherwise the
\* error of the failed read.
C3_FailedStatus ==
    \A c \in DOMAIN calls :
        NonSuccess(c) =>
            /\ FailedMeta(c)
            /\ LET r    == Deref(calls[c].resp)
                   text == FailedWith(r.StatusCode, Capped(r.Body))
                   read == FailedWith(r.StatusCode, ReadError)
               IN  IF ~r.readErr \/ Len(r.Body) > ErrorBodyCap THEN ErrText(c) = text
                   ELSE IF Len(r.Body) < ErrorBodyCap THEN ErrText(c) = read
                   ELSE ErrText(c) \in {text, read}

\* A non-2xx response with a body longer than the cap has been answered.
C3_Witness ==
    \E c \in DOMAIN calls :
        /\ NonSuccess(c)
        /\ Len(BodyOf(c)) > ErrorBodyCap
        /\ ~Deref(calls[c].resp).readErr
        /\ StatusOf(c) = 300

\* C4 (the code does otherwise): in every outcome of request that returns a
\* Meta, Meta.Count equals the number of newline-terminated records written to
\* each configured sink during the call, whatever the sinks' Writes do; for a
\* non-2xx or 204 response Count is 0 and no byte is written to any sink.
C4_CountIsWritten ==
    \A c \in Returned :
        ~IsNil(calls[c].meta) =>
            /\ \A i \in 1..Len(Writers) :
                   ListedOnce(i) => Deref(calls[c].meta).Count = Newlines(sinks[Writers[i]])
            /\ c \in Answered /\ (NonSuccess(c) \/ StatusOf(c) = 204)
                   => Deref(calls[c].meta).Count = 0 /\ NoSinkWritten

\* C5 (the code does otherwise): when a client is configured with two or more
\* sinks through Options.Dest and Options.MultiDest, then after any request all
\* configured sinks have received the identical byte stream.  (Read for sinks
\* that accept what they are handed.)
C5_SameStream ==
    \A c \in Returned :
        Len(Writers) >= 2 /\ (\A i \in 1..Len(Writers) : Writers[i] \notin Unreliable)
            => \A i, j \in 1..Len(Writers) : sinks[Writers[i]] = sinks[Writers[j]]

-----------------------------------------------------------------------------
(* The URL and the request, as a server reads them *)

RECURSIVE Split(_, _)
\* The pieces of s between the occurrences of tok.
Split(s, tok) ==
    IF Index(s, tok) = 0 THEN <<s>>
    ELSE <<Before(s, Index(s, tok))>> \o Split(After(s, Index(s, tok)), tok)

RECURSIVE Unescape(_)
\* The text a %XX-escaped text stands for.
Unescape(s) ==
    IF s = <<>> THEN <<>>
    ELSE IF Head(s) = "%" /\ Len(s) >= 3
    THEN LET x == SubSeq(s, 2, 3)
         IN  <<CASE x = <<"2", "C">> -> ","
                 [] x = <<"2", "5">> -> "%"
                 [] x = <<"3", "F">> -> "?"
                 [] x = <<"2", "3">> -> "#"
                 [] x = <<"3", "D">> -> "="
                 [] x = <<"2", "6">> -> "&"
                 [] OTHER -> "invalid">> \o Unescape(SubSeq(s, 4, Len(s)))
    ELSE <<Head(s)>> \o Unescape(Tail(s))

\* The decoded values the query q holds for the parameter key.
ParamValues(q, key) ==
    {Unescape(After(Split(q, "&")[i], Index(Split(q, "&")[i], "="))) :
        i \in {j \in 1..Len(Split(q, "&")) :
                  /\ Contains(Split(q, "&")[j], "=")
                  /\ Before(Split(q, "&")[j], Index(Split(q, "&")[j], "=")) = <<key>>}}

\* The parameter is nowhere in the query.
Omitted(q, key) == ParamValues(q, key) = {} /\ ~Contains(q, key)

DigitValue(d) == CHOOSE n \in 0..9 : DigitChar[n + 1] = d

RECURSIVE Atoi(_)
\* The number a decimal text stands for.
Atoi(s) ==
    IF Head(s) = "-" THEN 0 - Atoi(Tail(s))
    ELSE IF Len(s) = 1 THEN DigitValue(s[1])
    ELSE 10 * Atoi(SubSeq(s, 1, Len(s) - 1)) + DigitValue(s[Len(s)])

\* The calls of GetFromTimestamp for which buildURL returned a URL.
Built == {c \in DOMAIN calls : calls[c].op = "GetFromTimestamp" /\ ~IsNil(calls[c].u)}

\* The query of the built URL, and the query the request carries.
Queries(c) == {Deref(calls[c].u).RawQuery, Deref(calls[c].req).URL.RawQuery}

\* C6: for every (start, end, count), the URL built by GetFromTimestamp holds
\* the query parameter start with the decimal value of start, holds end if and
\* only if end > 0, and holds count if and only if count > 0; an omitted
\* parameter appears nowhere in the query string.
C6_TimestampParams ==
    \A c \in Built : \A q \in Queries(c) :
        /\ \E v \in ParamValues(q, "start") :
               ParamValues(q, "start") = {v} /\ Atoi(v) = calls[c].start
        /\ IF calls[c].end > 0
           THEN \E v \in ParamValues(q, "end") :
                    ParamValues(q, "end") = {v} /\ Atoi(v) = calls[c].end
           ELSE Omitted(q, "end")
        /\ IF calls[c].count > 0
           THEN \E v \in ParamValues(q, "count") :
                    ParamValues(q, "count") = {v} /\ Atoi(v) = calls[c].count
           ELSE Omitted(q, "count")

\* A URL has been built for a negative start, end = 0 and count = -1, and for a
\* zone identifier that holds a "?".
C6_Witness ==
    \E c \in Built :
        /\ calls[c].start < 0 /\ calls[c].end = 0 /\ calls[c].count = -1
        /\ Contains(calls[c].zoneID, "?")

\* C7 (the code does otherwise): every URL built by buildURL has the path
\* {base}/zones/{zoneID}/logs/{variant}, where variant is 'received' exactly
\* when the client was configured with ByReceived true and 'requests' exactly
\* when it was configured with ByReceived false.
C7_Path ==
    \A c \in Built :
        \E variant \in {<<"received">>, <<"requests">>} :
            /\ ~IsNil(options) => (variant = <<"received">> <=> Deref(options).ByReceived)
            /\ Deref(calls[c].u).Path =
                   <<"https://api.cloudflare.com/client/v4", "/zones/">>
                       \o calls[c].zoneID \o <<"/logs/">> \o variant

RECURSIVE CommaJoined(_)
\* The names, a comma between each two.
CommaJoined(names) ==
    IF names = <<>> THEN <<>>
    ELSE IF Len(names) = 1 THEN names[1]
    ELSE CommaJoined(SubSeq(names, 1, Len(names) - 1)) \o <<",">> \o names[Len(names)]

\* The field allowlist the client was configured with.
Allowlist ==
    IF IsNil(options) THEN <<>>
    ELSE IF IsNil(Deref(options).Fields) THEN <<>>
    ELSE Deref(Deref(options).Fields)

\* C8: the fields query parameter is present in a built log URL if and only
\* if the client uses the 'received' variant and its field allowlist is not
\* empty; when present its decoded value is the configured field names joined
\* by commas in configured order.
C8_Fields ==
    \A c \in Built : \A q \in Queries(c) :
        IF Deref(newRet.client).byReceived /\ Allowlist # <<>>
        THEN ParamValues(q, "fields") = {CommaJoined(Allowlist)}
        ELSE Omitted(q, "fields")

\* A URL has been built for an allowlist of two names that hold a comma and a
\* percent sign.
C8_Witness ==
    \E c \in Built :
        /\ Deref(newRet.client).byReceived
        /\ Len(Allowlist) = 2
        /\ Contains(CommaJoined(Allowlist), "%")
        /\ ParamValues(Deref(calls[c].u).RawQuery, "fields") # {}

\* The calls that have issued a request.
Issued == {c \in DOMAIN calls : ~IsNil(calls[c].req)}

\* C9: every HTTP request issued by the client is a GET that carries
\* X-Auth-Key equal to the client's API key, X-Auth-Email equal to the
\* client's account email and Accept equal to application/json, whatever the
\* configured extra headers hold for the same names.
C9_RequestHeaders ==
    \A c \in Issued :
        LET req == Deref(calls[c].req)
        IN  /\ req.Method = "GET"
            /\ {"X-Auth-Key", "X-Auth-Email", "Accept"} \subseteq DOMAIN req.Header
            /\ req.Header["X-Auth-Key"] = <<newRet.apiKey>>
            /\ req.Header["X-Auth-Email"] = <<newRet.apiEmail>>
            /\ req.Header["Accept"] = << <<"application/json">> >>

\* A request has been issued by a client whose configured extra headers hold
\* another X-Auth-Key and another Accept.
C9_Witness ==
    \E c \in Issued :
        /\ ~IsNil(options)
        /\ {"X-Auth-Key", "Accept"} \subseteq DOMAIN Deref(options).Headers
        /\ Deref(options).Headers["X-Auth-Key"] # <<newRet.apiKey>>
        /\ calls[c].op = "FetchFieldNames"

\* C10: New returns no client and the error 'apiKey cannot be empty' whenever
\* apiKey is empty, whatever apiEmail is; no client and the error 'apiEmail
\* cannot be empty' whenever apiKey is not empty and apiEmail is; a client and
\* a nil error otherwise.
C10_New ==
    newCalls > 0 =>
        IF newRet.apiKey = <<>>
        THEN IsNil(newRet.client) /\ newRet.err = Some(<<"apiKey cannot be empty">>)
        ELSE IF newRet.apiEmail = <<>>
        THEN IsNil(newRet.client) /\ newRet.err = Some(<<"apiEmail cannot be empty">>)
        ELSE ~IsNil(newRet.client) /\ IsNil(newRet.err)

\* New has been called with both arguments empty.
C10_Witness == newCalls > 0 /\ newRet.apiKey = <<>> /\ newRet.apiEmail = <<>>

-----------------------------------------------------------------------------
(* Sampling rate and timestamp format *)

\* The sampling rate (in hundredths) and the timestamp format the client was
\* configured with.
ConfiguredSample == IF IsNil(options) THEN 0 ELSE Deref(options).Sample
ConfiguredFormat == IF IsNil(options) THEN <<>> ELSE Deref(options).TimestampFormat

\* New has run on the options and returned an error and no client.
Rejected == IsNil(newRet.client) /\ ~IsNil(newRet.err)

\* The URLs built and the requests issued, as the queries they hold.
AllQueries ==
    UNION {{Deref(calls[c].u).RawQuery} : c \in {d \in DOMAIN calls : ~IsNil(calls[d].u)}}
    \cup UNION {{Deref(calls[c].req).URL.RawQuery} : c \in Issued}

\* C11 (the code does otherwise): a sampling value that is not zero and
\* outside [0.1, 0.9] is always rejected with a configuration error when the
\* client configuration is constructed, so no request carrying such a sample
\* parameter is ever built or sent.
C11_SampleRejected ==
    /\ newCalls > 0 /\ ConfiguredSample # 0
           /\ (ConfiguredSample < 10 \/ ConfiguredSample > 90) => Rejected
    /\ \A q \in AllQueries :
           ParamValues(q, "sample") \subseteq
               {<<"0", ".", DigitChar[d + 1]>> : d \in 1..9}

\* C12 (the code does otherwise): a configured timestamp format that is not
\* one of 'unix', 'unixnano', 'rfc3339' is rejected with a configuration error
\* at configuration time, so every timestamps query parameter ever sent has one
\* of these three values.
C12_FormatRejected ==
    /\ newCalls > 0 /\ ConfiguredFormat \notin {<<>>, unix, unixNano, rfc3339} => Rejected
    /\ \A q \in AllQueries :
           ParamValues(q, "timestamps") \subseteq {unix, unixNano, rfc3339}

\* The number of tenths a text with one digit after the decimal point stands
\* for; -1000 when the text is not of that form.
Tenths(v) ==
    LET w == IF v # <<>> /\ Head(v) = "-" THEN Tail(v) ELSE v
    IN  IF /\ Len(w) >= 3
           /\ w[Len(w) - 1] = "."
           /\ \A i \in (1..Len(w)) \ {Len(w) - 1} : \E n \in 0..9 : DigitChar[n + 1] = w[i]
        THEN (IF w = v THEN 1 ELSE -1)
                 * (10 * Atoi(SubSeq(w, 1, Len(w) - 2)) + DigitValue(w[Len(w)]))
        ELSE -1000

\* C13: in every built log URL the sample parameter is present if and only if
\* the configured sampling rate is not zero, rendered with exactly one digit
\* after the decimal point (the nearest such number), and the timestamps
\* parameter is present if and only if a timestamp format was configured, with
\* the configured value passed through verbatim.
C13_SampleAndTimestamps ==
    \A c \in Built : \A q \in Queries(c) :
        /\ IF ConfiguredSample # 0
           THEN \E v \in ParamValues(q, "sample") :
                    /\ ParamValues(q, "sample") = {v}
                    /\ Tenths(v) # -1000
                    /\ 10 * Tenths(v) - ConfiguredSample \in -5..5
           ELSE Omitted(q, "sample")
        /\ IF ConfiguredFormat # <<>>
           THEN ParamValues(q, "timestamps") = {ConfiguredFormat}
           ELSE Omitted(q, "timestamps")

\* A URL has been built for a negative sampling rate and a timestamp format
\* that holds an "&".
C13_Witness ==
    \E c \in Built :
        /\ ConfiguredSample < 0
        /\ Contains(ConfiguredFormat, "&")
        /\ ~IsNil(calls[c].req)

-----------------------------------------------------------------------------
(* The Meta on the error paths *)

\* The calls whose dispatch failed: a request was built, no response came.
Undelivered == {c \in Returned : ~IsNil(calls[c].req) /\ IsNil(calls[c].resp)}

\* C14: when the HTTP dispatch fails at transport level, request returns no
\* Meta together with an error wrapping the underlying cause, and nothing is
\* written to any sink.
C14_TransportFailure ==
    \A c \in Undelivered :
        /\ IsNil(calls[c].meta)
        /\ ~IsNil(calls[c].err)
        /\ ErrText(c) = <<"HTTP request failed", ": ">> \o DialError
        /\ NoSinkWritten

\* The dispatch of a client with two writers has failed.
C14_Witness == \E c \in Undelivered : Len(Writers) >= 2

\* C15 as stated: every call to GetFromTimestamp or FetchFieldNames returns a
\* Meta to the caller regardless of success or failure: on every error path
\* the returned Meta is not nil.
C15_AsStated == \A c \in Returned : IsNil(calls[c].flags) => ~IsNil(calls[c].meta)

\* C15, amended: a call to GetFromTimestamp or FetchFieldNames returns a Meta
\* that is not nil, with the status of the response, exactly when a response
\* was obtained, whether the call then succeeds or fails (non-2xx, 204, stream
\* failure); when the URL cannot be parsed or the dispatch fails it returns a
\* nil Meta with the error.
C15_MetaIffResponse ==
    \A c \in Returned :
        IF IsNil(calls[c].resp)
        THEN IsNil(calls[c].meta) /\ ~IsNil(calls[c].err)
        ELSE ~IsNil(calls[c].meta) /\ Deref(calls[c].meta).StatusCode = StatusOf(c)

\* A stream has failed after one record was forwarded.
C15_Witness ==
    \E c \in Answered :
        /\ StatusOf(c) = 200
        /\ ~IsNil(calls[c].err)
        /\ ~IsNil(calls[c].meta)
        /\ Deref(calls[c].meta).Count = 1

-----------------------------------------------------------------------------
(* FetchFieldNames *)

\* The calls of FetchFieldNames that have issued a request.
FieldCalls == {c \in Issued : calls[c].op = "FetchFieldNames"}

\* C16 (the code does otherwise): FetchFieldNames always requests the fixed
\* path {base}/zones/{zoneID}/logs/received/fields with an empty query string,
\* whatever variant, fields, sample or timestamp format the client was
\* configured with, and streams the response like any other successful
\* request (Count = number of lines).
C16_FieldsRequest ==
    \A c \in FieldCalls :
        /\ Deref(calls[c].req).URL.Path =
               <<"https://api.cloudflare.com/client/v4", "/zones/">>
                   \o calls[c].zoneID \o <<"/logs/received/fields">>
        /\ Deref(calls[c].req).URL.RawQuery = <<>>
        /\ ~Contains(String(Deref(calls[c].req).URL), "?")
        /\ c \in Answered /\ StatusOf(c) = 200 /\ NewlineTerminated(BodyOf(c))
               => /\ IsNil(calls[c].err)
                  /\ Deref(calls[c].meta).Count = Newlines(BodyOf(c))
                  /\ sinks["Stdout"] = BodyOf(c)

-----------------------------------------------------------------------------
(* Options.HTTPClient and Options.Headers *)

\* C17 (the code does otherwise): when Options.HTTPClient is not nil, every
\* request of the client constructed from those options is dispatched through
\* that HTTP client; the default HTTP client is used only when none is
\* provided.
C17_HTTPClientUsed ==
    \A c \in Issued :
        Deref(calls[c].req).Client =
            IF ~IsNil(options) /\ ~IsNil(Deref(options).HTTPClient)
            THEN Deref(Deref(options).HTTPClient)
            ELSE "DefaultClient"

\* C18 (the code does otherwise): every caller-supplied extra header given in
\* Options.Headers whose name is not X-Auth-Key, X-Auth-Email or Accept is
\* present with its supplied value on every HTTP request the client issues.
C18_ExtraHeaders ==
    \A c \in Issued :
        ~IsNil(options) =>
            \A k \in DOMAIN Deref(options).Headers \ {"X-Auth-Key", "X-Auth-Email", "Accept"} :
                /\ k \in DOMAIN Deref(calls[c].req).Header
                /\ Deref(calls[c].req).Header[k] = Deref(options).Headers[k]

-----------------------------------------------------------------------------
(* Retrieval by ray ID *)

\* The runs of logshare-cli with --ray-id and without --list-fields that have
\* built a URL.
RayRuns ==
    {c \in DOMAIN calls :
        /\ ~IsNil(calls[c].flags) /\ ~IsNil(calls[c].u)
        /\ Deref(calls[c].flags).rayID # <<>>
        /\ ~Deref(calls[c].flags).listFields}

\* C19 (the code does otherwise): given a ray ID that is not empty the client
\* builds a URL whose query has start_id equal to the ray ID and no start
\* parameter, with end if and only if end > 0 and count if and only if
\* count > 0; and logshare-cli, when --ray-id is given and --list-fields is
\* not, retrieves by ray ID instead of by timestamp.
C19_RayID ==
    \A c \in RayRuns :
        LET q  == Deref(calls[c].u).RawQuery
            fl == Deref(calls[c].flags)
        IN  /\ calls[c].op # "GetFromTimestamp"
            /\ ParamValues(q, "start_id") = {fl.rayID}
            /\ Omitted(q, "start")
            /\ IF fl.endTime > 0 THEN ParamValues(q, "end") = {FormatInt(fl.endTime)}
               ELSE Omitted(q, "end")
            /\ IF fl.count > 0 THEN ParamValues(q, "count") = {FormatInt(fl.count)}
               ELSE Omitted(q, "count")

-----------------------------------------------------------------------------
(* The memory the streamer holds *)

\* The calls whose response is being streamed or has been.
Streamed == {c \in DOMAIN calls : ~IsNil(calls[c].resp)}

\* The bytes of the body the scanner has not yet returned as a token.
Pending(c) == calls[c].buf \o calls[c].rest

\* The length of the record being scanned, its newline included.
CurrentRecordLen(c) ==
    IF Contains(Pending(c), LF) THEN Index(Pending(c), LF) ELSE Len(Pending(c))

\* The length of the longest record of a body, its newline included.
LongestRecord(b) ==
    LET pieces == Split(b, LF)
        lens   == {Len(pieces[i]) + (IF i < Len(pieces) THEN 1 ELSE 0) :
                      i \in 1..Len(pieces)}
    IN  CHOOSE m \in lens : \A l \in lens : l <= m

-----------------------------------------------------------------------------
(* Two calls at once on one client *)

\* The lines of a body as bufio.ScanLines splits them: the records that end in
\* a newline and, when the body does not end in one, the bytes after the last
\* newline; each less one trailing carriage return.
RECURSIVE Lines(_)
Lines(b) ==
    IF b = <<>> THEN <<>>
    ELSE IF Index(b, LF) = 0 THEN <<LessCR(b)>>
    ELSE <<LessCR(Before(b, Index(b, LF)))>> \o Lines(After(b, Index(b, LF)))

\* Every line and its newline fit the scanner's buffer.
LinesFit(b) == \A i \in 1..Len(Lines(b)) : Len(Lines(b)[i]) < MaxScanTokenSize

\* The call streamed a successful response.
StreamedResponse(c) ==
    c \in Answered /\ StatusOf(c) >= 200 /\ StatusOf(c) <= 299 /\ StatusOf(c) # 204

\* The lines of its response a returned call has forwarded.
Forwarded(c) ==
    IF StreamedResponse(c) /\ ~IsNil(calls[c].meta)
          /\ Deref(calls[c].meta).Count \in 0..Len(Lines(BodyOf(c)))
    THEN SubSeq(Lines(BodyOf(c)), 1, Deref(calls[c].meta).Count)
    ELSE <<>>

\* The records a call forwards, each with its newline, as units.
Units(c) == [i \in 1..Len(Forwarded(c)) |-> Forwarded(c)[i] \o <<LF>>]

RECURSIVE WritesOf(_)
\* The Writes that forward the lines ls: each line, then a newline (lines
\* 259-260).
WritesOf(ls) == IF ls = <<>> THEN <<>> ELSE <<Head(ls), <<LF>> >> \o WritesOf(Tail(ls))

RECURSIVE Merges(_, _)
\* The sequences that hold the elements of s and of t, each in its order.
Merges(s, t) ==
    IF s = <<>> THEN {t}
    ELSE IF t = <<>> THEN {s}
    ELSE {<<Head(s)>> \o m : m \in Merges(Tail(s), t)}
             \cup {<<Head(t)>> \o m : m \in Merges(s, Tail(t))}

\* No step of a call (from the step that begins it on) changes the client, its
\* stored headers included, or the caller's Options.
ClientUntouched ==
    (\E c \in DOMAIN calls : calls'[c].pc # "idle")
        => newRet' = newRet /\ options' = options

\* A returned call that streamed a response that arrived whole and whose lines
\* fit the buffer counts the lines of its own response.
CountsItsOwn(c) ==
    StreamedResponse(c) /\ ~Deref(calls[c].resp).readErr /\ LinesFit(BodyOf(c))
        => /\ ~IsNil(calls[c].meta)
           /\ Deref(calls[c].meta).Count = Len(Lines(BodyOf(c)))
           /\ IsNil(calls[c].err)

\* Both calls returned, and the client writes to one writer that accepts what
\* it is handed.
BothReturned ==
    /\ Returned = {1, 2}
    /\ Len(Writers) = 1
    /\ Writers[1] \notin Unreliable

\* C21 as stated: two calls issued concurrently on the same Client are safe
\* under every interleaving: neither call modifies the client's configuration
\* or its stored headers, each call's Meta.Count equals the number of records
\* of its own response, and every record that reaches a sink appears there as
\* an unbroken unit of the record's bytes immediately followed by its own
\* newline.
C21_AsStated ==
    /\ [][ClientUntouched]_vars
    /\ [](\A c \in Returned : CountsItsOwn(c))
    /\ [](BothReturned =>
              sinks[Writers[1]] \in {Concat(m) : m \in Merges(Units(1), Units(2))})

\* C21, amended: under every interleaving of two calls on the same Client,
\* neither call modifies the client's configuration, its stored headers or the
\* Options; each call that streams a response which arrives whole and whose
\* lines fit the scanner's buffer returns a Meta.Count equal to the number of
\* lines of its own response; and a writer that accepts what it is handed (and
\* whose Write may be called from two goroutines, as os.Stdout's) holds the
\* Writes of the two calls, those of each call in their order: a record and
\* its newline are two Writes, between which a Write of the other call can
\* fall.
C21_Concurrent ==
    /\ [][ClientUntouched]_vars
    /\ [](\A c \in Returned : CountsItsOwn(c))
    /\ [](BothReturned =>
              sinks[Writers[1]] \in {Concat(m) : m \in Merges(WritesOf(Forwarded(1)),
                                                               WritesOf(Forwarded(2)))})

\* Both calls streamed a record of their own to the same writer, and the
\* record of one stands between the other's record and that record's newline.
C21_Witness ==
    /\ BothReturned
    /\ StreamedResponse(1) /\ StreamedResponse(2)
    /\ BodyOf(1) = <<"a", LF>> /\ BodyOf(2) = <<"a", LF>>
    /\ sinks[Writers[1]] = <<"a", "a", LF, LF>>

-----------------------------------------------------------------------------
(* Writes that fail, scans that fail *)

\* C22 (the code does otherwise): if a Write to any destination sink fails
\* while a successful response is being streamed, the failure is promoted to a
\* stream error returned by request and streaming is aborted, and the error is
\* not swallowed.  Read from its consequence: a call that streamed a response
\* and returned a nil error has had every Write accepted in full, so that each
\* writer that is configured once holds every record the call counted, with
\* its newline.
C22_WriteFailure ==
    \A c \in Returned :
        StreamedResponse(c) /\ IsNil(calls[c].err)
            => \A i \in 1..Len(Writers) :
                   ListedOnce(i) => sinks[Writers[i]] = Concat(Units(c))

RECURSIVE RawLines(_)
\* The lines of a body with their carriage returns.
RawLines(b) ==
    IF b = <<>> THEN <<>>
    ELSE IF Index(b, LF) = 0 THEN <<b>>
    ELSE <<Before(b, Index(b, LF))>> \o RawLines(After(b, Index(b, LF)))

\* Line i of the body b and what ends it are within the scanner's buffer:
\* "yes", "no", or "maybe" for a last line without a newline that fills the
\* buffer (it is split off when the reader reports its end together with it).
LineFits(b, i) ==
    LET l == RawLines(b)[i]
    IN  IF i < Len(RawLines(b)) \/ NewlineTerminated(b)
        THEN IF Len(l) < MaxScanTokenSize THEN "yes" ELSE "no"
        ELSE IF Len(l) < MaxScanTokenSize THEN "yes"
        ELSE IF Len(l) = MaxScanTokenSize THEN "maybe" ELSE "no"

\* The numbers of lines of b that streamLogs can have forwarded when the scan
\* ends: the lines before the first that does not fit.
ForwardedCounts(b) ==
    LET n    == Len(RawLines(b))
        bad  == {i \in 1..n : LineFits(b, i) # "yes"}
        j    == IF bad = {} THEN n + 1 ELSE CHOOSE i \in bad : \A h \in bad : i <= h
    IN  IF j = n + 1 THEN {n}
        ELSE IF LineFits(b, j) = "maybe" THEN {j - 1, j}
        ELSE {j - 1}

\* The error request returns for a failed scan.
StreamError(cause) ==
    <<"failed to stream logs", ": ", "reading response:", ": ">> \o cause

\* The scan of a call's response failed.
ScanFailed(c) == c \in Returned /\ StreamedResponse(c) /\ ~IsNil(calls[c].err)

\* C23: if scanning the response body fails after k records were forwarded
\* (read error, or a line exceeding the scanner's buffer limit), request
\* returns a non-nil Meta with the received status and Count = k together with
\* a wrapped stream error, and the k records already written to the sinks
\* remain written (seen in each writer that is configured once and accepts what
\* it is handed).
C23_ScanFailure ==
    \A c \in DOMAIN calls :
        ScanFailed(c) =>
            /\ ~IsNil(calls[c].meta)
            /\ Deref(calls[c].meta).StatusCode = StatusOf(c)
            /\ Deref(calls[c].meta).URL = String(Deref(calls[c].req).URL)
            /\ Deref(calls[c].meta).Count \in ForwardedCounts(BodyOf(c))
            /\ ErrText(c) \in {StreamError(ReadError), StreamError(ErrTooLong)}
            /\ ErrText(c) = StreamError(ReadError)
                   => /\ Deref(calls[c].resp).readErr
                      /\ Deref(calls[c].meta).Count = Len(RawLines(BodyOf(c)))
            /\ ErrText(c) = StreamError(ErrTooLong)
                   => Deref(calls[c].meta).Count < Len(RawLines(BodyOf(c)))
            /\ \A i \in 1..Len(Writers) :
                   GetsEveryWrite(i) /\ ListedOnce(i)
                       => sinks[Writers[i]] = Concat(Units(c))

\* A read of the body failed after two records were forwarded to a writer
\* that accepts what it is handed.
C23_Witness ==
    \E c \in DOMAIN calls :
        /\ ScanFailed(c)
        /\ Deref(calls[c].resp).readErr
        /\ Deref(calls[c].meta).Count = 2
        /\ \E i \in 1..Len(Writers) :
               GetsEveryWrite(i) /\ ListedOnce(i) /\ Len(sinks[Writers[i]]) >= 3

-----------------------------------------------------------------------------
(* The default variant, and the Options after New *)

\* The path GetFromTimestamp builds for a zone on a client made with
\* New(key, email, nil).
DefaultPath(zoneID) ==
    Deref(buildURL(NewClient(newRet.apiKey, newRet.apiEmail, Nil),
                   zoneID, EmptyValues).u).Path

\* C24 (the code does otherwise): the client has one default log-source
\* variant: a client built with New(key, email, nil) and a client built with
\* New(key, email, &Options{}) whose ByReceived is left unset select the same
\* variant and therefore build the same URL path for the same zone.
C24_OneDefault ==
    \A c \in Built :
        IsNil(calls[c].flags) /\ options = Some(ZeroOptions)
            => Deref(calls[c].u).Path = DefaultPath(calls[c].zoneID)

\* C25 (the code does otherwise): New does not modify the Options value passed
\* to it, so constructing clients repeatedly from the same Options (with Dest
\* set) yields clients with the same sink set: after any number of New calls
\* on one Options, a request on the newest client writes each record to Dest
\* exactly once.  (The Options value is still one the caller made; Dest is read
\* when every writer accepts what it is handed.)
C25_OptionsKept ==
    /\ options \in SinkOptions
    /\ \A c \in Returned :
           /\ StreamedResponse(c)
           /\ ~IsNil(options) /\ ~IsNil(Deref(options).Dest)
           /\ \A i \in 1..Len(Writers) : Writers[i] \notin Unreliable
           => sinks[Deref(Deref(options).Dest)] = Concat(Units(c))

-----------------------------------------------------------------------------
(* The bytes of the body and the bytes in the sinks *)

RECURSIVE LessLineEndCR(_, _)
\* The bytes of b from position i on, less each carriage return that stands
\* directly before a newline or at the end of b.
LessLineEndCR(b, i) ==
    IF i > Len(b) THEN <<>>
    ELSE (IF b[i] = CR /\ (i = Len(b) \/ b[i + 1] = LF) THEN <<>> ELSE <<b[i]>>)
             \o LessLineEndCR(b, i + 1)

\* b, with a newline added when it is not empty and does not end in one.
NewlineEnded(b) == IF NewlineTerminated(b) THEN b ELSE b \o <<LF>>

\* A call that streamed a response whose body arrived whole and whose lines
\* fit the scanner's buffer, and has returned.
StreamedWhole(c) ==
    /\ c \in Returned
    /\ StreamedResponse(c)
    /\ ~Deref(calls[c].resp).readErr
    /\ \A i \in 1..Len(RawLines(BodyOf(c))) : LineFits(BodyOf(c), i) = "yes"

\* Each writer that is configured once and accepts what it is handed holds
\* the bytes bs.
SinksHold(bs) ==
    \A i \in 1..Len(Writers) : GetsEveryWrite(i) /\ ListedOnce(i) => sinks[Writers[i]] = bs

=============================================================================
